---- MODULE Spec2Model ----
(***************************************************************************)
(* Model of scripts/generateData.js: the catalog generator that walks      *)
(* pdfs/, classifies every PDF by its path, merges sidecar overrides and   *)
(* (in exam paper mode) the previously written catalog, and writes one     *)
(* JSON catalog per semester.                                              *)
(*                                                                         *)
(* Strings are sequences of one-character strings, so that the regular     *)
(* expressions of the script are modelled by what they match.              *)
(***************************************************************************)
EXTENDS Integers, Sequences, FiniteSets, TLC

----------------------------------------------------------------------------
(* Characters and the JavaScript string primitives the script uses.        *)

UpperChars == <<"A","B","C","D","E","F","G","H","I","J","K","L","M",
                "N","O","P","Q","R","S","T","U","V","W","X","Y","Z">>

LowerChars == <<"a","b","c","d","e","f","g","h","i","j","k","l","m",
                "n","o","p","q","r","s","t","u","v","w","x","y","z">>

DigitChars == <<"0","1","2","3","4","5","6","7","8","9">>

Range(s) == {s[i] : i \in 1..Len(s)}

DigitSet == Range(DigitChars)

UpperSet == Range(UpperChars)

LetterSet == Range(UpperChars) \cup Range(LowerChars)

\* \d
IsDigit(c) == c \in DigitSet

IsUpper(c) == c \in UpperSet

IsLetter(c) == c \in LetterSet

\* \s (the only white space of the modelled alphabet is the blank)
IsSpace(c) == c = " "

\* [\s._-]
SepSet == {" ", ".", "_", "-"}

IsSep(c) == c \in SepSet

\* \w, the class that decides where \b holds
IsWordChar(c) == IsLetter(c) \/ IsDigit(c) \/ c = "_"

LowerOf == [c \in UpperSet |-> LowerChars[CHOOSE i \in 1..26 : UpperChars[i] = c]]

ToLowerChar(c) == IF IsUpper(c) THEN LowerOf[c] ELSE c

\* String.prototype.toLowerCase
ToLowerCase(s) == [i \in 1..Len(s) |-> ToLowerChar(s[i])]

\* String.prototype.startsWith
StartsWith(s, pre) == Len(s) >= Len(pre) /\ SubSeq(s, 1, Len(pre)) = pre

\* a case-insensitive literal prefix, as in /^sem/i
StartsWithCI(s, pre) == StartsWith(ToLowerCase(s), ToLowerCase(pre))

\* the subsequence of s at the index set K, in index order
KeepAt(s, K) ==
  [n \in 1..Cardinality(K) |->
     s[CHOOSE i \in K : Cardinality({j \in K : j <= i}) = n]]

\* s.replace(/c/g, r) for a single character c
ReplaceChar(s, c, r) == [i \in 1..Len(s) |-> IF s[i] = c THEN r ELSE s[i]]

\* s.replace(/[class]+/g, r): every maximal run of characters of the class
\* (a set of characters) becomes one r
ReplaceRuns(s, class, r) ==
  KeepAt([i \in 1..Len(s) |-> IF s[i] \in class THEN r ELSE s[i]],
         {i \in 1..Len(s) : ~(s[i] \in class /\ i > 1 /\ s[i-1] \in class)})

\* String.prototype.trim
Trim(s) ==
  KeepAt(s, {i \in 1..Len(s) : (\E j \in 1..i : ~IsSpace(s[j]))
                               /\ (\E j \in i..Len(s) : ~IsSpace(s[j]))})

\* the end (exclusive) of the maximal run of class characters starting at j
RunEnd(s, j, class) ==
  CHOOSE k \in j..(Len(s) + 1) :
    /\ \A m \in j..(k - 1) : s[m] \in class
    /\ (k = Len(s) + 1 \/ s[k] \notin class)

DigitValOf == [c \in DigitSet |-> (CHOOSE i \in 1..10 : DigitChars[i] = c) - 1]

DigitVal(c) == DigitValOf[c]

\* parseInt(digits, 10) and Number(digits) on a string of decimal digits
RECURSIVE ParseInt(_)
ParseInt(ds) ==
  IF ds = <<>> THEN 0
  ELSE ParseInt(SubSeq(ds, 1, Len(ds) - 1)) * 10 + DigitVal(ds[Len(ds)])

\* Array.prototype.join
RECURSIVE Join(_, _)
Join(segs, sep) ==
  IF segs = <<>> THEN <<>>
  ELSE IF Len(segs) = 1 THEN segs[1]
  ELSE segs[1] \o sep \o Join(Tail(segs), sep)

\* [\s._-]*?(\d+) tried at position j: the separators are skipped lazily and
\* the digits taken greedily; the two classes are disjoint, so the match is
\* the whole separator run followed by the whole digit run
DigitsBetween(s, k, e) == [found |-> e > k, digits |-> SubSeq(s, k, e - 1)]

SepDigitsFrom(s, j) ==
  DigitsBetween(s, RunEnd(s, j, SepSet), RunEnd(s, RunEnd(s, j, SepSet), DigitSet))

----------------------------------------------------------------------------
(* The classifier functions of the script.                                 *)

SemPrefix == <<"s","e","m","_">>

SemUnknown == <<"s","e","m","_","u","n","k","n","o","w","n">>

\* /^sem/i.test(p)
IsSemSeg(p) == StartsWithCI(p, <<"s","e","m">>)

\* the least element of a non-empty set of integers
Min(S) == CHOOSE h \in S : \A g \in S : h <= g

\* the positions of seg where /sem[\s._-]*?(\d+)/i matches
SemHits(seg) ==
  {i \in 1..Len(seg) :
     /\ i + 2 <= Len(seg)
     /\ ToLowerCase(SubSeq(seg, i, i + 2)) = <<"s","e","m">>
     /\ SepDigitsFrom(seg, i + 3).found}

\* normalizeSem: the leftmost match of /sem[\s._-]*?(\d+)/i anywhere in the
\* segment gives sem_<digits>; otherwise the lower-cased segment
normalizeSem(seg) ==
  IF seg = <<>> THEN SemUnknown
  ELSE IF SemHits(seg) # {}
    THEN ToLowerCase(SemPrefix \o SepDigitsFrom(seg, Min(SemHits(seg)) + 3).digits)
  ELSE SemPrefix \o ToLowerCase(ReplaceRuns(seg, {" "}, "_"))

\* the match of /^(?:Unit|U)[\s._-]*?(\d+)/i: Unit is tried first, then U
UnitMatch(seg) ==
  IF StartsWithCI(seg, <<"u","n","i","t">>) /\ SepDigitsFrom(seg, 5).found
    THEN SepDigitsFrom(seg, 5)
  ELSE IF StartsWithCI(seg, <<"u">>) THEN SepDigitsFrom(seg, 2)
  ELSE [found |-> FALSE, digits |-> <<>>]

\* /^(?:Unit|U)[\s._-]*?\d+/i.test(p)
IsUnitSeg(p) == UnitMatch(p).found

NoUnit == -1

\* normalizeUnit: the unit number, or null (NoUnit)
normalizeUnit(seg) ==
  IF seg = <<>> THEN NoUnit
  ELSE IF UnitMatch(seg).found THEN ParseInt(UnitMatch(seg).digits)
  ELSE NoUnit

\* the positions of s where /\b(19|20)\d{2}\b/ matches, and the first of them
\* (0 when there is none)
YearHits(s) ==
  {i \in 1..Len(s) :
     /\ i + 3 <= Len(s)
     /\ SubSeq(s, i, i + 1) \in {<<"1","9">>, <<"2","0">>}
     /\ IsDigit(s[i + 2]) /\ IsDigit(s[i + 3])
     /\ (i = 1 \/ ~IsWordChar(s[i - 1]))
     /\ (i + 3 = Len(s) \/ ~IsWordChar(s[i + 4]))}

YearPos(s) == IF YearHits(s) = {} THEN 0 ELSE Min(YearHits(s))

NullYear == -2

\* filename.match(/\b(19|20)\d{2}\b/) and Number(yearMatch[0]), else null
yearGuess(filename) ==
  IF YearPos(filename) = 0 THEN NullYear
  ELSE ParseInt(SubSeq(filename, YearPos(filename), YearPos(filename) + 3))

DotPdf == <<".","p","d","f">>

\* /\.pdf$/i.test(name)
IsPdfName(name) ==
  Len(name) >= 4 /\ ToLowerCase(SubSeq(name, Len(name) - 3, Len(name))) = DotPdf

\* name.replace(/\.(pdf)$/i, '')
StripPdf(name) == IF IsPdfName(name) THEN SubSeq(name, 1, Len(name) - 4) ELSE name

\* s.replace(/\b(19|20)\d{2}\b/, ''): the first year token only
StripYear(s) ==
  IF YearPos(s) = 0 THEN s
  ELSE SubSeq(s, 1, YearPos(s) - 1) \o SubSeq(s, YearPos(s) + 4, Len(s))

\* [_\-]
DashOrUnderscore == {"_", "-"}

\* s.replace(/(?<!\d)\.+(?!\d)/g, ' '): a dot stays when the character before
\* it or the character after it is a digit
BlankDots(s) ==
  [i \in 1..Len(s) |->
     IF s[i] = "." /\ ~(i > 1 /\ IsDigit(s[i - 1]))
                   /\ ~(i < Len(s) /\ IsDigit(s[i + 1]))
       THEN " " ELSE s[i]]

cleanTitle(name) ==
  Trim(ReplaceRuns(
         BlankDots(ReplaceRuns(StripYear(StripPdf(name)), DashOrUnderscore, " ")),
         {" "}, " "))

----------------------------------------------------------------------------
(* String.prototype.localeCompare under the root collation, for the        *)
(* characters of the model: blank < punctuation < digits < letters, letters *)
(* compared without case first and lower case before upper case on a tie.  *)

CollationOrder ==
  <<" ", "_", "-", ":", ".", "/">> \o DigitChars \o LowerChars

CollRankOf ==
  [c \in Range(CollationOrder) |->
     CHOOSE i \in 1..Len(CollationOrder) : CollationOrder[i] = c]

CollRank(c) == CollRankOf[ToLowerChar(c)]

Sign(n) == IF n < 0 THEN -1 ELSE IF n > 0 THEN 1 ELSE 0

\* lexicographic comparison of two sequences of integers
LexCompareAt(x, y, d) ==
  IF d = {} THEN Sign(Len(x) - Len(y))
  ELSE IF x[Min(d)] < y[Min(d)] THEN -1 ELSE 1

LexCompare(x, y) ==
  LexCompareAt(x, y, {i \in 1..Len(x) : i <= Len(y) /\ x[i] # y[i]})

PrimaryCompare(a, b) ==
  LexCompare([i \in 1..Len(a) |-> CollRank(a[i])], [i \in 1..Len(b) |-> CollRank(b[i])])

CaseCompare(a, b) ==
  LexCompare([i \in 1..Len(a) |-> IF IsUpper(a[i]) THEN 1 ELSE 0],
             [i \in 1..Len(b) |-> IF IsUpper(b[i]) THEN 1 ELSE 0])

localeCompare(a, b) ==
  IF PrimaryCompare(a, b) # 0 THEN PrimaryCompare(a, b) ELSE CaseCompare(a, b)

\* Array.prototype.sort, given cmp[j][i], the comparator's result on the
\* elements at positions j and i: the sort is stable, so an element goes after
\* the elements that compare smaller and after the equal ones that precede it
SortRank(cmp, n, i) ==
  Cardinality({j \in 1..n : cmp[j][i] < 0 \/ (cmp[j][i] = 0 /\ j < i)})

StableSort(seq, cmp) ==
  [k \in 1..Len(seq) |->
     seq[CHOOSE i \in 1..Len(seq) : SortRank(cmp, Len(seq), i) = k - 1]]

\* Array.prototype.findIndex, given the result of the test on every element,
\* on the 1-based positions of Sequences: the first position that passes, 0
\* when none does
FindIndex(passes) ==
  IF \E i \in 1..Len(passes) : passes[i]
    THEN CHOOSE i \in 1..Len(passes) : passes[i] /\ \A j \in 1..(i - 1) : ~passes[j]
    ELSE 0

\* `${n}` for an integer n >= 0
RECURSIVE NumToString(_)
NumToString(n) ==
  IF n < 10 THEN <<DigitChars[n + 1]>>
  ELSE NumToString(n \div 10) \o <<DigitChars[(n % 10) + 1]>>

\* a || b on strings: the empty string (like undefined and null) is falsy
OrElse(a, b) == IF a # <<>> THEN a ELSE b

----------------------------------------------------------------------------
(* The directory tree the generator is run on.  A path is the sequence of  *)
(* segments of path.relative(root, full), the first being pdfs.            *)

SegPdfs == <<"p","d","f","s">>
SegSem2 == <<"S","e","m","2">>
SegSem4 == <<"S","e","m","4">>
SegSemDash4 == <<"s","e","m","-","4">>
SegMisc == <<"m","i","s","c">>
SegChem == <<"C","h","e","m">>
SegPhy == <<"P","h","y">>
SegU2Phy == <<"U","2","_","P","h","y">>
SegPapers == <<"P","a","p","e","r","s">>
SegPapersLower == <<"p","a","p","e","r","s">>
SegMaj1 == <<"M","a","j","_","1">>
SegUnit1 == <<"U","n","i","t","_","1">>
SegU2 == <<"U","2">>
FileMid == <<"m","i","d","-","2","0","2","3",".","p","d","f">>
FileQ == <<"q",".","p","d","f">>
FileMaj == <<"m","a","j","_","1","b",".","p","d","f">>
FileA == <<"a",".","p","d","f">>
FileB == <<"b",".","P","D","F">>
FileN == <<"n",".","p","d","f">>
FileSyl == <<"s","y","l",".","p","d","f">>
FileTxt == <<"n",".","t","x","t">>

\* every file the tree may hold, in the order walk() meets them
PdfTree ==
  << <<SegPdfs, SegSem2, SegChem, SegPapers, FileMid>>,
     <<SegPdfs, SegSem2, SegChem, SegPapersLower, SegU2, FileQ>>,
     <<SegPdfs, SegSem4, SegPhy, SegMaj1, SegUnit1, FileMaj>>,
     <<SegPdfs, SegSem4, SegPhy, SegUnit1, FileA>>,
     <<SegPdfs, SegSem4, SegPhy, SegUnit1, FileB>>,
     <<SegPdfs, SegSem4, SegPhy, FileTxt>>,
     <<SegPdfs, SegSem4, SegU2Phy, FileN>>,
     <<SegPdfs, SegMisc, FileA>>,
     <<SegPdfs, SegSemDash4, SegPhy, FileSyl>> >>

AllPaths == Range(PdfTree)

\* the sidecars a document may have: none, an unparseable one, and two
\* parseable ones (an absent field and an empty one are both falsy)
NoSidecar == [kind |-> "absent", title |-> <<>>, description |-> <<>>,
              year |-> 0, subject |-> <<>>]

BadSidecar == [kind |-> "malformed", title |-> <<"z">>, description |-> <<>>,
               year |-> 0, subject |-> <<>>]

TitleSidecar == [kind |-> "parsed", title |-> <<"z">>, description |-> <<>>,
                 year |-> 0, subject |-> <<>>]

YearSidecar == [kind |-> "parsed", title |-> <<>>, description |-> <<"d">>,
                year |-> 2020, subject |-> <<"B","i","o">>]

Sidecars == {NoSidecar, BadSidecar, TitleSidecar, YearSidecar}

\* the values a user types into the title of a catalog entry
EditedTitles == {<<"e","d">>, <<>>}

VARIABLES
  files,      \* the files present under pdfs/
  sidecar,    \* path -> the content of <path>.json
  flatOut,    \* semKey -> data/<semKey>.json, for the files that exist
  syllOut,    \* semKey -> data/syllabus_<semKey>.json, for the files that exist
  isSyllabusMode, \* process.argv.includes('--syllabus'), the same at every run
  streak,     \* how many runs happened since the tree or the output last changed
  fsOps,      \* how many times the tree was changed
  edits,      \* how many times an output file was changed by hand
  prior       \* history: flatOut as the last run found it, while streak > 0

vars == <<files, sidecar, flatOut, syllOut, isSyllabusMode, streak, fsOps, edits, prior>>

\* path.basename(full)
Basename(p) == p[Len(p)]

\* readSidecar: null (NoSidecar) when the file is absent or does not parse
readSidecar(side, p) ==
  IF side[p].kind = "parsed" THEN side[p] ELSE NoSidecar

\* rel, and so entry.file: the segments joined by '/'
RelPath(p) == Join(p, <<"/">>)

\* a || b on years: 0 and null are falsy
YearOrElse(a, b) == IF a # 0 /\ a # NullYear THEN a ELSE b

SubjectUnknown == <<"U","n","k","n","o","w","n">>

\* semSeg of a path: the first segment that starts with sem, else parts[1]
FlatSemSeg(parts) ==
  IF FindIndex([i \in 1..Len(parts) |-> IsSemSeg(parts[i])]) # 0
    THEN parts[FindIndex([i \in 1..Len(parts) |-> IsSemSeg(parts[i])])]
  ELSE IF Len(parts) >= 2 THEN parts[2]
  ELSE SemUnknown

FlatSemKey(parts) == normalizeSem(FlatSemSeg(parts))

\* parts[semIndex + 1] || 'Unknown', semIndex = parts.indexOf(semSeg)
SubjectAt(parts, semIndex) ==
  IF semIndex + 1 <= Len(parts) THEN parts[semIndex + 1] ELSE SubjectUnknown

FlatSubject(parts) ==
  SubjectAt(parts, FindIndex([i \in 1..Len(parts) |-> parts[i] = FlatSemSeg(parts)]))

NoCategory == <<>>

\* parts.slice(from, to).join(' ').replace(/_/g, ' '), on 1-based positions
\* from..to
CategoryOf(parts, from, to) == ReplaceChar(Join(SubSeq(parts, from, to), <<" ">>), "_", " ")

\* semIndex: the first segment that starts with sem (0 when there is none)
SemIndex(parts) == FindIndex([i \in 1..Len(parts) |-> IsSemSeg(parts[i])])

\* unitIndex: the first segment of the whole path that matches the unit pattern
UnitIndex(parts) == FindIndex([i \in 1..Len(parts) |-> IsUnitSeg(parts[i])])

\* semIndex !== -1 && parts[semIndex + 1]
HasSubject(parts) == SemIndex(parts) # 0 /\ SemIndex(parts) + 1 <= Len(parts)

SyllabusSemKey(parts) ==
  IF SemIndex(parts) # 0 THEN normalizeSem(parts[SemIndex(parts)]) ELSE SemUnknown

SyllabusSubject(parts) ==
  IF HasSubject(parts) THEN ReplaceChar(parts[SemIndex(parts) + 1], "_", " ")
  ELSE SubjectUnknown

\* the segment right after the subject segment is Papers, in any case
IsPapersPath(parts) ==
  /\ HasSubject(parts)
  /\ SemIndex(parts) + 2 <= Len(parts)
  /\ ToLowerCase(parts[SemIndex(parts) + 2]) = <<"p","a","p","e","r","s">>

\* a unit detection that leaves the Papers folders to the exam paper mode
SyllabusUnit_SkipPapers(parts) ==
  IF IsPapersPath(parts) THEN NoUnit
  ELSE IF UnitIndex(parts) # 0 THEN normalizeUnit(parts[UnitIndex(parts)])
  ELSE IF HasSubject(parts) THEN 0
  ELSE NoUnit

\* unitNum: from the unit segment, else 0 inside a subject, else null
SyllabusUnit(parts) ==
  IF UnitIndex(parts) # 0 THEN normalizeUnit(parts[UnitIndex(parts)])
  ELSE IF HasSubject(parts) THEN 0
  ELSE NoUnit

\* category: the segments between the subject and the unit segment, or
\* between the subject and the file when there is no unit segment
SyllabusCategory(parts) ==
  IF UnitIndex(parts) # 0
    THEN IF UnitIndex(parts) > SemIndex(parts) + 2
           THEN CategoryOf(parts, SemIndex(parts) + 2, UnitIndex(parts) - 1)
           ELSE NoCategory
    ELSE IF HasSubject(parts) /\ Len(parts) > SemIndex(parts) + 2
           THEN CategoryOf(parts, SemIndex(parts) + 2, Len(parts) - 1)
           ELSE NoCategory

\* a key that forgets the category
UnitKey_NumberOnly(category, unitNum) == NumToString(unitNum)

\* unitKey: `${category}:::${unitNum}` or `${unitNum}`
UnitKey(category, unitNum) ==
  IF category # NoCategory THEN category \o <<":",":",":">> \o NumToString(unitNum)
  ELSE NumToString(unitNum)

\* what the two forEach bodies derive from the path alone, for every file of
\* the tree
Classified ==
  [p \in AllPaths |->
     [isPdf |-> IsPdfName(Basename(p)),
      rel |-> RelPath(p),
      titleGuess |-> OrElse(cleanTitle(Basename(p)), Basename(p)),
      year |-> yearGuess(Basename(p)),
      flatSemKey |-> FlatSemKey(p),
      flatSubject |-> ReplaceChar(FlatSubject(p), "_", " "),
      semKey |-> SyllabusSemKey(p),
      subject |-> SyllabusSubject(p),
      num |-> SyllabusUnit(p),
      category |-> SyllabusCategory(p),
      unitKey |-> IF SyllabusUnit(p) = NoUnit THEN <<>>
                  ELSE UnitKey(SyllabusCategory(p), SyllabusUnit(p))]]

\* walk(pdfRoot): the PDF files present, in directory order
walk(present) ==
  SelectSeq(PdfTree, LAMBDA p : p \in present /\ Classified[p].isPdf)

\* a title that prefers the guess to the sidecar
EntryTitle_GuessFirst(side, p) == OrElse(Classified[p].titleGuess, readSidecar(side, p).title)

\* title: (side && side.title) || titleGuess || filename
EntryTitle(side, p) == OrElse(readSidecar(side, p).title, Classified[p].titleGuess)

----------------------------------------------------------------------------
(* Exam paper mode.                                                        *)

\* the entry the exam paper mode builds for one file
FlatEntryOf(side, p, s, c) ==
  [subject |-> OrElse(s.subject, c.flatSubject),
   title |-> EntryTitle(side, p),
   year |-> YearOrElse(s.year, c.year),
   file |-> c.rel,
   description |-> OrElse(s.description, <<>>)]

FlatEntry(side, p) == FlatEntryOf(side, p, readSidecar(side, p), Classified[p])

\* Object.keys(grouped): the semesters of the scanned files
FlatSemKeys(present) == {Classified[p].flatSemKey : p \in Range(walk(present))}

\* the entries of the files of mine, in order
FlatEntries(side, mine) == [i \in 1..Len(mine) |-> FlatEntry(side, mine[i])]

\* a grouping that skips the files outside a Papers folder
Grouped_PapersOnly(present, side, semKey) ==
  FlatEntries(side, SelectSeq(walk(present),
                LAMBDA p : Classified[p].flatSemKey = semKey /\ IsPapersPath(p)))

\* grouped[semKey]: the entries of a semester, in walk order
Grouped(present, side, semKey) ==
  FlatEntries(side, SelectSeq(walk(present), LAMBDA p : Classified[p].flatSemKey = semKey))

\* existing: the parsed prior catalog, [] when absent or unparseable
Existing(out, semKey) ==
  IF semKey \in DOMAIN out /\ out[semKey].parseable THEN out[semKey].entries ELSE <<>>

\* existingMap.get(e.file): the last prior entry with that file, 0 when none
ExistingIndex(existing, file) ==
  IF \E i \in 1..Len(existing) : existing[i].file = file
    THEN CHOOSE i \in 1..Len(existing) :
           existing[i].file = file /\ \A j \in (i + 1)..Len(existing) : existing[j].file # file
    ELSE 0

\* the merge of e with existing[i], e itself when i is 0
MergeWith(e, existing, i) ==
  IF i = 0 THEN e
  ELSE [subject |-> OrElse(existing[i].subject, e.subject),
        title |-> OrElse(existing[i].title, e.title),
        year |-> YearOrElse(existing[i].year, e.year),
        file |-> e.file,
        description |-> OrElse(existing[i].description, e.description)]

\* a merge that lets the fresh title win over the prior one
MergeEntry_FreshTitle(e, existing) ==
  [MergeWith(e, existing, ExistingIndex(existing, e.file)) EXCEPT !.title = e.title]

\* the merge of a fresh entry with the prior entry of the same file
MergeEntry(e, existing) == MergeWith(e, existing, ExistingIndex(existing, e.file))

\* (b.year || 0) - (a.year || 0) || a.title.localeCompare(b.title)
FlatCompare(a, b) ==
  IF YearOrElse(b.year, 0) - YearOrElse(a.year, 0) # 0
    THEN YearOrElse(b.year, 0) - YearOrElse(a.year, 0)
    ELSE localeCompare(a.title, b.title)

\* entries.map(e => ...): every fresh entry merged with the prior catalog
MergeAll(entries, existing) ==
  [i \in 1..Len(entries) |-> MergeEntry(entries[i], existing)]

\* merged.sort((a, b) => ...)
SortFlat(seq) ==
  StableSort(seq, [j \in 1..Len(seq) |-> [i \in 1..Len(seq) |-> FlatCompare(seq[j], seq[i])]])

\* a write that appends the merged entries to the prior catalog
MergedCatalog_Appended(present, side, out, semKey) ==
  SortFlat(Existing(out, semKey)
           \o MergeAll(Grouped(present, side, semKey), Existing(out, semKey)))

\* a merge that keeps the prior entries of the files that are gone
MergedCatalog_KeepsPrior(present, side, out, semKey) ==
  SortFlat(MergeAll(Grouped(present, side, semKey), Existing(out, semKey))
           \o SelectSeq(Existing(out, semKey),
                LAMBDA x : \A p \in Range(walk(present)) : Classified[p].rel # x.file))

\* the catalog written for one scanned semester
MergedCatalog(present, side, out, semKey) ==
  SortFlat(MergeAll(Grouped(present, side, semKey), Existing(out, semKey)))

\* a run that also rewrites the catalogs found in the output directory
WrittenSemKeys_WithStale(present, out) == FlatSemKeys(present) \cup DOMAIN out

\* the semesters whose catalog a run writes
WrittenSemKeys(present, out) == FlatSemKeys(present)

\* the output directory after an exam paper run
WriteCatalogs(present, side, out, written) ==
  [k \in DOMAIN out \cup written |->
     IF k \in written
       THEN [parseable |-> TRUE, entries |-> MergedCatalog(present, side, out, k)]
       ELSE out[k]]

FlatWrite(present, side, out) ==
  WriteCatalogs(present, side, out, WrittenSemKeys(present, out))

----------------------------------------------------------------------------
(* Syllabus mode.                                                          *)

LabelSyllabus == <<"S","y","l","l","a","b","u","s">>

LabelUnit == <<"U","n","i","t"," ">>

\* the material entry of one file
SyllabusEntry(side, p) ==
  [title |-> EntryTitle(side, p),
   file |-> Classified[p].rel,
   description |-> OrElse(readSidecar(side, p).description, <<>>)]

\* what files.forEach files one document under
SyllabusItem(side, p, c) ==
  [semKey |-> c.semKey, subject |-> c.subject, unitKey |-> c.unitKey,
   num |-> c.num, category |-> c.category, entry |-> SyllabusEntry(side, p)]

ItemsOf(side, kept) ==
  [i \in 1..Len(kept) |-> SyllabusItem(side, kept[i], Classified[kept[i]])]

\* the files the syllabus mode keeps (unitNum !== null), in walk order, each
\* with the place it is filed under
SyllabusItems(present, side) ==
  ItemsOf(side, SelectSeq(walk(present), LAMBDA p : Classified[p].num # NoUnit))

\* the distinct elements of seq in the order of their first occurrence
\* (the insertion order of the keys of an object)
DistinctInOrder(seq) ==
  KeepAt(seq, {i \in 1..Len(seq) : \A j \in 1..(i - 1) : seq[j] # seq[i]})

\* Object.keys(unitsMap): integer-like keys first, ascending, then the other
\* keys in insertion order
SortByNum(seq) ==
  StableSort(seq, [j \in 1..Len(seq) |-> [i \in 1..Len(seq) |-> seq[j].num - seq[i].num]])

KeysOf(groups) == [i \in 1..Len(groups) |-> groups[i].unitKey]

KeysInOrder(groups) ==
  KeysOf(SortByNum(SelectSeq(groups, LAMBDA g : g.integerKey))
         \o SelectSeq(groups, LAMBDA g : ~g.integerKey))

UnitKeysInOrder(items) ==
  KeysInOrder(DistinctInOrder([i \in 1..Len(items) |->
     [unitKey |-> items[i].unitKey, integerKey |-> items[i].category = NoCategory,
      num |-> items[i].num]]))

MaterialCompare(a, b) == localeCompare(a.title, b.title)

\* materials.sort((a, b) => a.title.localeCompare(b.title))
SortMaterials(seq) ==
  StableSort(seq, [j \in 1..Len(seq) |->
                     [i \in 1..Len(seq) |-> MaterialCompare(seq[j], seq[i])]])

\* a base title that never looks at the materials
BaseTitle_UnitLabel(num, materials) ==
  IF num = 0 THEN LabelSyllabus ELSE LabelUnit \o NumToString(num)

\* materials[0].title, "Syllabus" for unit 0
BaseTitle(num, materials) ==
  IF num = 0 THEN LabelSyllabus
  ELSE IF Len(materials) > 0 THEN materials[1].title
  ELSE LabelUnit \o NumToString(num)

\* the category is put in front unless the base title starts with it
DisplayTitle(category, baseTitle) ==
  IF category # NoCategory /\ ~StartsWith(ToLowerCase(baseTitle), ToLowerCase(category))
    THEN category \o <<":"," ">> \o baseTitle
    ELSE baseTitle

\* one element of unitsList
GroupWith(num, category, materials) ==
  [unit |-> num,
   category |-> category,
   title |-> DisplayTitle(category, BaseTitle(num, materials)),
   materials |-> materials]

GroupOf(mine) ==
  GroupWith(mine[1].num, mine[1].category,
            SortMaterials([i \in 1..Len(mine) |-> mine[i].entry]))

UnitGroup(items, unitKey) == GroupOf(SelectSeq(items, LAMBDA it : it.unitKey = unitKey))

\* the comparator of unitsList.sort: categorized groups last, by category,
\* then by unit number
UnitCompare(a, b) ==
  IF a.category # NoCategory /\ b.category # NoCategory
     /\ localeCompare(a.category, b.category) # 0
    THEN localeCompare(a.category, b.category)
  ELSE IF a.category # NoCategory /\ b.category = NoCategory THEN 1
  ELSE IF a.category = NoCategory /\ b.category # NoCategory THEN -1
  ELSE a.unit - b.unit

\* unitsList.sort((a, b) => ...)
SortUnits(seq) ==
  StableSort(seq, [j \in 1..Len(seq) |->
                     [i \in 1..Len(seq) |-> UnitCompare(seq[j], seq[i])]])

\* one element of outputList
UnitGroups(mine, keys) == [i \in 1..Len(keys) |-> UnitGroup(mine, keys[i])]

SubjectOf(subject, mine) ==
  [subject |-> subject, units |-> SortUnits(UnitGroups(mine, UnitKeysInOrder(mine)))]

SubjectCatalog(items, subject) ==
  SubjectOf(subject, SelectSeq(items, LAMBDA it : it.subject = subject))

SubjectCompare(a, b) == localeCompare(a.subject, b.subject)

\* outputList.sort((a, b) => a.subject.localeCompare(b.subject))
SortSubjects(seq) ==
  StableSort(seq, [j \in 1..Len(seq) |->
                     [i \in 1..Len(seq) |-> SubjectCompare(seq[j], seq[i])]])

\* outputList of one semester, sorted by subject
SubjectCatalogs(mine, subjects) ==
  [i \in 1..Len(subjects) |-> SubjectCatalog(mine, subjects[i])]

CatalogOf(mine) ==
  SortSubjects(SubjectCatalogs(mine,
     DistinctInOrder([i \in 1..Len(mine) |-> mine[i].subject])))

SyllabusCatalog(items, semKey) ==
  CatalogOf(SelectSeq(items, LAMBDA it : it.semKey = semKey))

\* Object.keys(syllabusData)
SyllabusSemKeys(items) == {items[i].semKey : i \in 1..Len(items)}

\* the output directory after a syllabus run
WriteSyllabus(out, items) ==
  [k \in DOMAIN out \cup SyllabusSemKeys(items) |->
     IF k \in SyllabusSemKeys(items) THEN SyllabusCatalog(items, k) ELSE out[k]]

SyllabusWrite(present, side, out) == WriteSyllabus(out, SyllabusItems(present, side))

----------------------------------------------------------------------------
(* The state machine: the tree and the output files change between runs.   *)

\* how many times the tree and the output files are changed, in all
MaxChanges == 3

\* how many runs follow one another with no change in between
MaxStreak == 2

\* an output directory with no catalog in it
NoOutput == [x \in {} |-> 0]

Init ==
  /\ files = {}
  /\ sidecar = [p \in AllPaths |-> NoSidecar]
  /\ flatOut = NoOutput
  /\ syllOut = NoOutput
  /\ isSyllabusMode \in BOOLEAN
  /\ streak = 0
  /\ fsOps = 0
  /\ edits = 0
  /\ prior = NoOutput

AddFile(p) ==
  /\ fsOps + edits < MaxChanges
  /\ p \notin files
  /\ files' = files \cup {p}
  /\ streak' = 0 /\ fsOps' = fsOps + 1 /\ prior' = NoOutput
  /\ UNCHANGED <<sidecar, flatOut, syllOut, isSyllabusMode, edits>>

RemoveFile(p) ==
  /\ fsOps + edits < MaxChanges
  /\ p \in files
  /\ files' = files \ {p}
  /\ streak' = 0 /\ fsOps' = fsOps + 1 /\ prior' = NoOutput
  /\ UNCHANGED <<sidecar, flatOut, syllOut, isSyllabusMode, edits>>

WriteSidecar(p, s) ==
  /\ fsOps + edits < MaxChanges
  /\ p \in files /\ Classified[p].isPdf
  /\ s # sidecar[p]
  /\ sidecar' = [sidecar EXCEPT ![p] = s]
  /\ streak' = 0 /\ fsOps' = fsOps + 1 /\ prior' = NoOutput
  /\ UNCHANGED <<files, flatOut, syllOut, isSyllabusMode, edits>>

EditTitle(k, i, t) ==
  /\ fsOps + edits < MaxChanges
  /\ k \in DOMAIN flatOut /\ flatOut[k].parseable
  /\ i \in 1..Len(flatOut[k].entries)
  /\ t # flatOut[k].entries[i].title
  /\ flatOut' = [flatOut EXCEPT ![k].entries[i].title = t]
  /\ streak' = 0 /\ edits' = edits + 1 /\ prior' = NoOutput
  /\ UNCHANGED <<files, sidecar, syllOut, isSyllabusMode, fsOps>>

CorruptCatalog(k) ==
  /\ fsOps + edits < MaxChanges
  /\ k \in DOMAIN flatOut /\ flatOut[k].parseable
  /\ flatOut' = [flatOut EXCEPT ![k] = [parseable |-> FALSE, entries |-> <<>>]]
  /\ streak' = 0 /\ edits' = edits + 1 /\ prior' = NoOutput
  /\ UNCHANGED <<files, sidecar, syllOut, isSyllabusMode, fsOps>>

RunFlat ==
  /\ ~isSyllabusMode
  /\ streak < MaxStreak
  /\ flatOut' = FlatWrite(files, sidecar, flatOut)
  /\ prior' = flatOut
  /\ streak' = streak + 1
  /\ UNCHANGED <<files, sidecar, syllOut, isSyllabusMode, fsOps, edits>>

RunSyllabus ==
  /\ isSyllabusMode
  /\ streak < MaxStreak
  /\ syllOut' = SyllabusWrite(files, sidecar, syllOut)
  /\ streak' = streak + 1
  /\ UNCHANGED <<files, sidecar, flatOut, isSyllabusMode, fsOps, edits, prior>>

Next ==
  \/ \E p \in AllPaths : AddFile(p)
  \/ \E p \in AllPaths : RemoveFile(p)
  \/ \E p \in AllPaths, s \in Sidecars : WriteSidecar(p, s)
  \/ \E k \in DOMAIN flatOut : \E i \in 1..Len(flatOut[k].entries), t \in EditedTitles :
       EditTitle(k, i, t)
  \/ \E k \in DOMAIN flatOut : CorruptCatalog(k)
  \/ RunFlat
  \/ RunSyllabus

Spec == Init /\ [][Next]_vars

----------------------------------------------------------------------------
(* Vocabulary of the properties.                                           *)

\* the documents of the current scan
Docs == Range(walk(files))

\* the last step was an exam paper run and nothing changed since
FlatRan == ~isSyllabusMode /\ streak >= 1

\* the last step was a syllabus run and nothing changed since
SyllabusRan == isSyllabusMode /\ streak >= 1

\* the semesters the exam paper mode observes in the current scan
ScannedSemKeys == {Classified[p].flatSemKey : p \in Docs}

\* the positions of the entries of catalog k of out that refer to file f
EntriesOf(out, k, f) ==
  IF k \in DOMAIN out
    THEN {i \in 1..Len(out[k].entries) : out[k].entries[i].file = f}
    ELSE {}

\* the unit groups of the syllabus output: semester, subject and unit position
GroupPlaces ==
  UNION {UNION {{<<k, s, u>> : u \in 1..Len(syllOut[k][s].units)} :
                  s \in 1..Len(syllOut[k])} : k \in DOMAIN syllOut}

GroupAt(g) == syllOut[g[1]][g[2]].units[g[3]]

\* the unit groups that hold a material referring to file f
GroupsOf(f) ==
  {g \in GroupPlaces :
     \E m \in 1..Len(GroupAt(g).materials) : GroupAt(g).materials[m].file = f}

\* how many materials of the syllabus output refer to file f
MaterialCount(f) ==
  Cardinality(UNION {{<<g, m>> : m \in {n \in 1..Len(GroupAt(g).materials) :
                                          GroupAt(g).materials[n].file = f}} :
                       g \in GroupPlaces})

\* the document has a parseable sidecar that supplies a non-empty title
HasSidecarTitle(p) == sidecar[p].kind = "parsed" /\ sidecar[p].title # <<>>

\* the catalog the last run read holds an entry for the document with a
\* non-empty title
PriorHasTitle(p) ==
  /\ Classified[p].flatSemKey \in DOMAIN prior
  /\ prior[Classified[p].flatSemKey].parseable
  /\ \E i \in EntriesOf(prior, Classified[p].flatSemKey, Classified[p].rel) :
       prior[Classified[p].flatSemKey].entries[i].title # <<>>

----------------------------------------------------------------------------
(* C1: manual-edit survival.  After an exam paper run, a scanned document  *)
(* whose entry in the catalog the run read had a non-empty title has, in   *)
(* the catalog the run wrote, an entry with exactly that title; the        *)
(* written catalog is what the next run reads, so the title survives any   *)
(* number of runs.                                                         *)
C1_ManualEditSurvival ==
  FlatRan =>
    \A p \in Docs :
      LET k == Classified[p].flatSemKey
          f == Classified[p].rel
      IN (k \in DOMAIN prior /\ prior[k].parseable) =>
           \A i \in EntriesOf(prior, k, f) :
             prior[k].entries[i].title # <<>> =>
               /\ EntriesOf(flatOut, k, f) # {}
               /\ \A j \in EntriesOf(flatOut, k, f) :
                    flatOut[k].entries[j].title = prior[k].entries[i].title

\* a hand-typed title is still in place after two runs in a row
C1_Witness ==
  /\ FlatRan /\ streak >= 2
  /\ \E p \in Docs :
       \E j \in EntriesOf(flatOut, Classified[p].flatSemKey, Classified[p].rel) :
         flatOut[Classified[p].flatSemKey].entries[j].title = <<"e","d">>

(* C2: merge idempotence.  A run that directly follows a run in the same   *)
(* mode, with no change of the tree, the sidecars or the output between    *)
(* them, leaves every output file as it was.                               *)
C2_MergeIdempotence ==
  [][(streak >= 1 /\ streak' = streak + 1) =>
       (flatOut' = flatOut /\ syllOut' = syllOut)]_vars

\* two runs in a row over a hand-edited catalog of at least two entries
C2_Witness ==
  /\ FlatRan /\ streak >= 2 /\ edits >= 1
  /\ \E k \in DOMAIN flatOut : Len(flatOut[k].entries) >= 2

(* C3 as claimed: after an exam paper run, every catalog that existed      *)
(* before the run and whose semester has no document in the scan has been  *)
(* rewritten with zero entries.                                            *)
C3_StaleRewrittenEmpty ==
  FlatRan =>
    \A k \in DOMAIN prior :
      k \notin ScannedSemKeys =>
        (k \in DOMAIN flatOut /\ flatOut[k].parseable /\ flatOut[k].entries = <<>>)

(* C3 as amended: after an exam paper run, every catalog that existed      *)
(* before the run and whose semester has no document in the scan is left   *)
(* exactly as it was.                                                      *)
C3_StaleLeftUntouched ==
  FlatRan =>
    \A k \in DOMAIN prior :
      k \notin ScannedSemKeys => (k \in DOMAIN flatOut /\ flatOut[k] = prior[k])

\* a catalog of a semester without documents that still has its entries
C3_Witness ==
  /\ FlatRan
  /\ \E k \in DOMAIN prior :
       k \notin ScannedSemKeys /\ prior[k].entries # <<>> /\ flatOut[k].entries # <<>>

C5_PapersExcluded ==
  SyllabusRan =>
    \A p \in Docs : IsPapersPath(p) => GroupsOf(Classified[p].rel) = {}

(* C5 as amended: a document whose segment right after the subject is      *)
(* Papers is not excluded from the syllabus: after a syllabus run it is a  *)
(* material of exactly one unit group, in the catalog of its semester.     *)
C5_PapersIncluded ==
  SyllabusRan =>
    \A p \in Docs :
      IsPapersPath(p) =>
        /\ MaterialCount(Classified[p].rel) = 1
        /\ \A g \in GroupsOf(Classified[p].rel) : g[1] = Classified[p].semKey

\* Papers documents, one with and one without a unit folder, are materials
C5_Witness ==
  /\ SyllabusRan
  /\ \E p, q \in Docs :
       /\ IsPapersPath(p) /\ UnitIndex(p) = 0 /\ GroupsOf(Classified[p].rel) # {}
       /\ IsPapersPath(q) /\ UnitIndex(q) # 0 /\ GroupsOf(Classified[q].rel) # {}

(* C6 as claimed: every entry of every catalog an exam paper run wrote     *)
(* refers to a document whose segment right after the subject is Papers.   *)
C6_OnlyPapers ==
  FlatRan =>
    \A k \in ScannedSemKeys :
      \A i \in 1..Len(flatOut[k].entries) :
        \E p \in AllPaths :
          Classified[p].rel = flatOut[k].entries[i].file /\ IsPapersPath(p)

(* C6 as amended: the exam paper mode skips no document: after a run,      *)
(* every scanned document, in a Papers folder or not, has an entry in the  *)
(* catalog of its semester.                                                *)
C6_AllDocumentsIncluded ==
  FlatRan =>
    \A p \in Docs :
      EntriesOf(flatOut, Classified[p].flatSemKey, Classified[p].rel) # {}

\* a catalog with the entry of a document outside Papers and of one inside
C6_Witness ==
  /\ FlatRan
  /\ \E p, q \in Docs :
       /\ ~IsPapersPath(p) /\ IsPapersPath(q)
       /\ EntriesOf(flatOut, Classified[p].flatSemKey, Classified[p].rel) # {}
       /\ EntriesOf(flatOut, Classified[q].flatSemKey, Classified[q].rel) # {}

\* the title the claim gives a group: a function of category and unit only
TitleByCategoryAndUnit(category, unit) ==
  IF unit = 0
    THEN IF category # NoCategory THEN category
         ELSE <<"S","y","l","l","a","b","u","s"," ","/"," ",
                "R","e","s","o","u","r","c","e","s">>
    ELSE IF category # NoCategory
           THEN category \o <<":"," ","U","n","i","t"," ">> \o NumToString(unit)
           ELSE <<"U","n","i","t"," ">> \o NumToString(unit)

(* C7 as claimed: the title of every unit group of the syllabus output is  *)
(* a function of its category and unit number only.                        *)
C7_TitleByCategoryAndUnit ==
  SyllabusRan =>
    \A g \in GroupPlaces :
      GroupAt(g).title = TitleByCategoryAndUnit(GroupAt(g).category, GroupAt(g).unit)

(* C7 as amended: the title of a unit group is built from a base, which is *)
(* "Syllabus" for unit 0 and the title of the group's first material (in   *)
(* ascending title order) for unit n > 0; the title is "<category>: <base>" *)
(* when the group has a category that the base does not already start with *)
(* (ignoring case), and the base alone otherwise.                          *)
C7_TitleFromFirstMaterial ==
  SyllabusRan =>
    \A g \in GroupPlaces :
      LET base == IF GroupAt(g).unit = 0 THEN <<"S","y","l","l","a","b","u","s">>
                  ELSE GroupAt(g).materials[1].title
          cat == GroupAt(g).category
      IN GroupAt(g).title =
           IF cat # <<>> /\ ~StartsWithCI(base, cat) THEN cat \o <<":"," ">> \o base
           ELSE base

\* a group of a unit n > 0 titled by its category and its first material
C7_Witness ==
  /\ SyllabusRan
  /\ \E g \in GroupPlaces :
       /\ GroupAt(g).unit > 0 /\ GroupAt(g).category # <<>>
       /\ GroupAt(g).title = GroupAt(g).category \o <<":"," ">> \o GroupAt(g).materials[1].title

\* the documents the syllabus mode files
Included == {p \in Docs : Classified[p].num # NoUnit}

(* C8: syllabus grouping.  After a syllabus run every included document is *)
(* a material of exactly one unit group; two included documents are in the *)
(* same group exactly when they have the same semester key, subject,       *)
(* category and unit number; the materials of a group are in ascending     *)
(* title order.                                                            *)
C8_SyllabusGrouping ==
  SyllabusRan =>
    /\ \A p \in Included : MaterialCount(Classified[p].rel) = 1
    /\ \A p, q \in Included :
         (GroupsOf(Classified[p].rel) = GroupsOf(Classified[q].rel))
           <=> /\ Classified[p].semKey = Classified[q].semKey
               /\ Classified[p].subject = Classified[q].subject
               /\ Classified[p].category = Classified[q].category
               /\ Classified[p].num = Classified[q].num
    /\ \A g \in GroupPlaces :
         \A i, j \in 1..Len(GroupAt(g).materials) :
           i < j => localeCompare(GroupAt(g).materials[i].title,
                                  GroupAt(g).materials[j].title) <= 0

\* two documents share a group, and a group of the same subject has the
\* same unit number under another category
C8_Witness ==
  /\ SyllabusRan
  /\ \E g, h \in GroupPlaces :
       /\ g[1] = h[1] /\ g[2] = h[2] /\ g[3] # h[3]
       /\ GroupAt(g).unit = GroupAt(h).unit
       /\ Len(GroupAt(g).materials) >= 2

\* the first segment after the subject segment that matches the unit
\* pattern, 0 when there is none
UnitIndexAfterSubject(parts) ==
  LET hits == {i \in (SemIndex(parts) + 2)..Len(parts) : IsUnitSeg(parts[i])}
  IN IF hits = {} THEN 0 ELSE CHOOSE h \in hits : \A g \in hits : h <= g

(* C9: positional unit detection.  After a syllabus run, a document inside *)
(* a subject is filed under the unit number of the first segment after the *)
(* subject segment that matches the unit pattern (unit 0 when there is     *)
(* none), and then under the category joined from the segments strictly    *)
(* between the subject and that segment; the subject segment and the       *)
(* segments before it never supply the unit number.                        *)
C9_UnitAfterSubject ==
  SyllabusRan =>
    \A p \in Docs :
      HasSubject(p) =>
        \A g \in GroupsOf(Classified[p].rel) :
          LET u == UnitIndexAfterSubject(p)
          IN IF u = 0 THEN GroupAt(g).unit = 0
             ELSE /\ GroupAt(g).unit = normalizeUnit(p[u])
                  /\ GroupAt(g).category =
                       IF u > SemIndex(p) + 2
                         THEN CategoryOf(p, SemIndex(p) + 2, u - 1)
                         ELSE NoCategory

(* C10: the prior catalog is never structural input.  After an exam paper  *)
(* run, the catalog of every semester observed in the scan has one entry   *)
(* per scanned document of that semester and no other entry, whatever the  *)
(* catalog held before.                                                    *)
C10_ExactlyTheScannedFiles ==
  FlatRan =>
    \A k \in ScannedSemKeys :
      /\ k \in DOMAIN flatOut /\ flatOut[k].parseable
      /\ \A i, j \in 1..Len(flatOut[k].entries) :
           i # j => flatOut[k].entries[i].file # flatOut[k].entries[j].file
      /\ {flatOut[k].entries[i].file : i \in 1..Len(flatOut[k].entries)}
           = {Classified[p].rel : p \in {q \in Docs : Classified[q].flatSemKey = k}}

\* the catalog the run read had an entry for a file that is gone
C10_Witness ==
  /\ FlatRan
  /\ \E k \in ScannedSemKeys \cap DOMAIN prior :
       \E i \in 1..Len(prior[k].entries) :
         prior[k].entries[i].file \notin {Classified[p].rel : p \in Docs}

====
